---------------------------- MODULE Spec2Model ----------------------------
(***************************************************************************)
(* A model of organize.py (c0lon/media-organizer).                         *)
(*                                                                         *)
(* File names are sequences of one-character strings, paths are sequences  *)
(* of names (the components under the root "/").  The regular expressions  *)
(* of the program are modelled by what re.search does on such a name.      *)
(***************************************************************************)
EXTENDS Integers, Sequences, FiniteSets, TLC

VARIABLES
    parseName,      \* SpecParse: the path handed to get_episode_info
    parseResult,    \* SpecParse: what get_episode_info returned or raised
    rarListing,     \* SpecRar: os.listdir of the archive's directory, in order
    rarArg,         \* SpecRar: the path handed to is_rar_first_volume
    rarResult,      \* SpecRar: what is_rar_first_volume returned or raised
    treeRoot,       \* SpecDiscover: the node at the path handed to get_media
    discResult,     \* SpecDiscover: what get_media returned or raised
    mode,           \* kwargs['mode']
    serial,         \* kwargs.get('serial')
    target,         \* kwargs['target']
    unwritable,     \* the directories in which nothing can be created
    source_media,   \* main: the collected media item paths
    jobs,           \* main: the job list; a job is [a, s, t]
    mainpc,         \* main: where the main thread is
    si,             \* main: the serial loop's position in jobs
    job_q,          \* job_q: the queued jobs (indices into jobs)
    unfinished,     \* job_q.unfinished_tasks: put but not yet task_done
    finished,       \* finished: the queued (job, result) pairs
    wpc,            \* organize_worker: where each worker thread is
    wjob,           \* organize_worker: job, the job a worker holds (0: none)
    wres,           \* organize_worker: result, the pair a worker is about to put
    done,           \* main: outcomes drained so far
    dir_counts,     \* main: target directory -> items added
    failed,         \* main: the failure records
    placed,         \* the target tree: the paths the actions created
    takenBy,        \* history: the workers job_q handed each job to
    execCount,      \* history: how often organize ran on each job
    outcome,        \* history: what organize returned or raised for each job
    putCount,       \* history: how many pairs were put on finished for each job
    extractLog      \* history: what extract_rar wrote for each job

-----------------------------------------------------------------------------
(* Characters, digits, int() and the {n:02} format.                        *)

Digits == {"0", "1", "2", "3", "4", "5", "6", "7", "8", "9"}

IsDigit(c) == c \in Digits

DigitVal(c) ==
    CASE c = "0" -> 0 [] c = "1" -> 1 [] c = "2" -> 2 [] c = "3" -> 3
      [] c = "4" -> 4 [] c = "5" -> 5 [] c = "6" -> 6 [] c = "7" -> 7
      [] c = "8" -> 8 [] c = "9" -> 9

DigitChar(d) == <<"0", "1", "2", "3", "4", "5", "6", "7", "8", "9">>[d + 1]

\* The length of the longest run of digits of name that starts at position i:
\* what a greedy \d* consumes there.
RECURSIVE DigitRun(_, _)
DigitRun(name, i) ==
    IF i > Len(name) \/ ~IsDigit(name[i]) THEN 0 ELSE 1 + DigitRun(name, i + 1)

\* int(ds) for a sequence of digits.
RECURSIVE ToInt(_)
ToInt(ds) ==
    IF ds = <<>> THEN 0
    ELSE 10 * ToInt(SubSeq(ds, 1, Len(ds) - 1)) + DigitVal(ds[Len(ds)])

\* str(n) for a natural number.
RECURSIVE ToDigits(_)
ToDigits(n) ==
    IF n < 10 THEN <<DigitChar(n)>> ELSE Append(ToDigits(n \div 10), DigitChar(n % 10))

\* f'{n:02}': at least two digits, zero-padded, wider when n needs it.
Pad2(n) == IF n < 10 THEN <<"0">> \o ToDigits(n) ELSE ToDigits(n)

\* The group a (\d+) captures at position i, as an integer.
GroupInt(name, i) == ToInt(SubSeq(name, i, i + DigitRun(name, i) - 1))

-----------------------------------------------------------------------------
(* EPISODE_FMTS and SEASON_FMTS: a match attempt of each pattern at one    *)
(* start position, and re.search as the leftmost start that matches.       *)

NoMatch == [found |-> FALSE, g1 |-> 0, g2 |-> 0]

\* r'[sS](\d+)[eE](\d+)' anchored at i.
SxEyAt(name, i) ==
    LET k == DigitRun(name, i + 1)
        e == i + 1 + k
    IN  IF /\ i <= Len(name)
           /\ name[i] \in {"s", "S"}
           /\ k >= 1
           /\ e <= Len(name)
           /\ name[e] \in {"e", "E"}
           /\ DigitRun(name, e + 1) >= 1
        THEN [found |-> TRUE, g1 |-> GroupInt(name, i + 1), g2 |-> GroupInt(name, e + 1)]
        ELSE NoMatch

\* r'(\d+)[xX](\d+)' anchored at i.
NxNAt(name, i) ==
    LET k == DigitRun(name, i)
        x == i + k
    IN  IF /\ k >= 1
           /\ x <= Len(name)
           /\ name[x] \in {"x", "X"}
           /\ DigitRun(name, x + 1) >= 1
        THEN [found |-> TRUE, g1 |-> GroupInt(name, i), g2 |-> GroupInt(name, x + 1)]
        ELSE NoMatch

\* r'[sS](?:eason ?)?(\d+)' anchored at i: the optional group is tried
\* first (with its optional blank, then without), then skipped.
SeasonAt(name, i) ==
    LET eason == /\ i + 5 <= Len(name)
                 /\ SubSeq(name, i + 1, i + 5) = <<"e", "a", "s", "o", "n">>
        blank == eason /\ i + 6 <= Len(name) /\ name[i + 6] = " "
    IN  IF i > Len(name) \/ name[i] \notin {"s", "S"} THEN NoMatch
        ELSE IF blank /\ DigitRun(name, i + 7) >= 1
             THEN [found |-> TRUE, g1 |-> GroupInt(name, i + 7), g2 |-> 0]
        ELSE IF eason /\ DigitRun(name, i + 6) >= 1
             THEN [found |-> TRUE, g1 |-> GroupInt(name, i + 6), g2 |-> 0]
        ELSE IF DigitRun(name, i + 1) >= 1
             THEN [found |-> TRUE, g1 |-> GroupInt(name, i + 1), g2 |-> 0]
        ELSE NoMatch

EPISODE_FMTS == <<"SxEy", "NxN">>

SEASON_FMTS == <<"Season">>

MatchAt(fmt, name, i) ==
    CASE fmt = "SxEy"   -> SxEyAt(name, i)
      [] fmt = "NxN"    -> NxNAt(name, i)
      [] fmt = "Season" -> SeasonAt(name, i)

\* re.search(fmt, name): the match at the leftmost position that has one.
ReSearch(fmt, name) ==
    LET Leftmost(ms) ==
            IF ms = {} THEN NoMatch
            ELSE (CHOOSE x \in ms : \A y \in ms : x[1] <= y[1])[2]
    IN  Leftmost({x \in {<<i, MatchAt(fmt, name, i)>> : i \in 1..Len(name)} : x[2].found})

-----------------------------------------------------------------------------
(* os.path on component sequences.                                         *)

\* os.path.split(p): (head, tail).
PathHead(p) == IF p = <<>> THEN <<>> ELSE SubSeq(p, 1, Len(p) - 1)

PathTail(p) == IF p = <<>> THEN <<>> ELSE p[Len(p)]

\* os.path.join(d, name) for a one-component name.
PathJoin(d, name) == Append(d, name)

\* The position of the dot that starts the extension of a name, 0 if none:
\* the last dot, unless only dots precede it.
ExtDot(name) ==
    LET dots == {i \in 1..Len(name) : name[i] = "."}
        last == CHOOSE i \in dots : \A j \in dots : j <= i
    IN  IF dots = {} THEN 0
        ELSE IF \A j \in 1..(last - 1) : name[j] = "." THEN 0
        ELSE last

\* os.path.splitext(p)[1] and, for a bare name, [0].
SplitExt(name) == IF ExtDot(name) = 0 THEN <<>> ELSE SubSeq(name, ExtDot(name), Len(name))

SplitStem(name) == IF ExtDot(name) = 0 THEN name ELSE SubSeq(name, 1, ExtDot(name) - 1)

PathExt(p) == SplitExt(PathTail(p))

MEDIA_EXTS == {<<".", "a", "v", "i">>, <<".", "m", "k", "v">>}

RAR_EXT == <<".", "r", "a", "r">>

-----------------------------------------------------------------------------
(* get_episode_info and get_season_number.  A result carries err, the name *)
(* of the exception raised ("" when the call returned).                    *)

\* The loop over EPISODE_FMTS: the first pattern that matches decides.
RECURSIVE FirstEpisodeMatch(_, _)
FirstEpisodeMatch(name, k) ==
    LET Try(m) == IF m.found THEN m ELSE FirstEpisodeMatch(name, k + 1)
    IN  IF k > Len(EPISODE_FMTS) THEN NoMatch ELSE Try(ReSearch(EPISODE_FMTS[k], name))

get_episode_info(p) ==
    LET Ret(m) ==
            \* `if not episode`: no match left episode None, or the match gave 0
            IF ~m.found \/ m.g2 = 0
            THEN [err |-> "ValueError", season |-> 0, episode |-> 0]
            ELSE [err |-> "", season |-> m.g1, episode |-> m.g2]
    IN  Ret(FirstEpisodeMatch(PathTail(p), 1))

RECURSIVE FirstSeasonMatch(_, _)
FirstSeasonMatch(name, k) ==
    LET Try(m) == IF m.found THEN m ELSE FirstSeasonMatch(name, k + 1)
    IN  IF k > Len(SEASON_FMTS) THEN NoMatch ELSE Try(ReSearch(SEASON_FMTS[k], name))

get_season_number(p) ==
    LET Ret(m) == IF m.found THEN [err |-> "", season |-> m.g1]
                  ELSE [err |-> "ValueError", season |-> 0]
    IN  Ret(FirstSeasonMatch(PathTail(p), 1))

-----------------------------------------------------------------------------
(* The archive inspector: is_rar_first_volume, is_rar_media_file and       *)
(* is_media_rar.  listing is os.listdir(d) of the archive's directory, in  *)
(* the order the system lists it; entries is RarFile(r).infolist().        *)

\* The number of names of listing[1..k] whose extension is ext.
RECURSIVE ExtCount(_, _, _)
ExtCount(listing, k, ext) ==
    IF k = 0 THEN 0
    ELSE ExtCount(listing, k - 1, ext) + (IF SplitExt(listing[k]) = ext THEN 1 ELSE 0)

\* The length of the run of digits that ends the name n: r'(\d+)$'.
RECURSIVE TrailingRun(_)
TrailingRun(n) ==
    IF n = <<>> \/ ~IsDigit(n[Len(n)]) THEN 0
    ELSE 1 + TrailingRun(SubSeq(n, 1, Len(n) - 1))

HasPart(name) == TrailingRun(SplitStem(name)) >= 1

PartNumber(name) ==
    LET n == SplitStem(name)
    IN  ToInt(SubSeq(n, Len(n) - TrailingRun(n) + 1, Len(n)))

\* parts, in listing order: the positions of listing whose stem ends in digits.
PartPositions(listing) == {k \in 1..Len(listing) : HasPart(listing[k])}

\* parts.sort(key=...)[0]: the sort is stable, so among the entries with the
\* least number the one listed first comes first.
FirstPart(listing) ==
    CHOOSE k \in PartPositions(listing) :
        \A j \in PartPositions(listing) :
            \/ PartNumber(listing[k]) < PartNumber(listing[j])
            \/ PartNumber(listing[k]) = PartNumber(listing[j]) /\ k <= j

is_rar_first_volume(r, listing) ==
    LET d == PathHead(r)
        rar_count == ExtCount(listing, Len(listing), RAR_EXT)
    IN  \* ext_counts.get('.rar') is None when no name has the extension,
        \* and None > 1 raises
        IF rar_count = 0 THEN [err |-> "TypeError", value |-> FALSE]
        ELSE IF rar_count > 1
             THEN IF PartPositions(listing) = {}
                  THEN [err |-> "IndexError", value |-> FALSE]
                  ELSE [err |-> "",
                        value |-> PathJoin(d, listing[FirstPart(listing)]) = r]
        ELSE [err |-> "", value |-> TRUE]

is_rar_media_file(entries) ==
    \E k \in 1..Len(entries) : SplitExt(entries[k]) \in MEDIA_EXTS

is_media_rar(r, listing, entries) ==
    LET first == is_rar_first_volume(r, listing)
    IN  IF first.err # "" THEN first
        ELSE IF ~first.value THEN [err |-> "", value |-> FALSE]
        ELSE [err |-> "", value |-> is_rar_media_file(entries)]

-----------------------------------------------------------------------------
(* The media discoverer.  A node of the directory tree is a record: name,  *)
(* kind ("dir", "file", or "other" for what is neither), kids (a           *)
(* directory's listing, in order) and entries (an archive's contents).     *)

File(name) == [name |-> name, kind |-> "file", kids |-> <<>>, entries |-> <<>>]

Other(name) == [name |-> name, kind |-> "other", kids |-> <<>>, entries |-> <<>>]

Rar(name, entries) == [name |-> name, kind |-> "file", kids |-> <<>>, entries |-> entries]

Dir(name, kids) == [name |-> name, kind |-> "dir", kids |-> kids, entries |-> <<>>]

Listing(kids) == [k \in 1..Len(kids) |-> kids[k].name]

is_season_dir(item, node) ==
    IF node.kind # "dir" THEN FALSE
    ELSE get_season_number(item).err = ""

\* The loop of get_media over kids[k..] of directory p; acc is the shared
\* list m so far, with the exception that ended the scan, if any.
RECURSIVE Walk(_, _, _, _)
Walk(p, kids, k, acc) ==
    IF acc.err # "" \/ k > Len(kids) THEN acc
    ELSE LET node == kids[k]
             item == PathJoin(p, node.name)
             ext  == PathExt(item)
             rar  == is_media_rar(item, Listing(kids), node.entries)
         IN  IF is_season_dir(item, node)
             THEN Walk(p, kids, k + 1, Walk(item, node.kids, 1, acc))
             ELSE IF node.kind = "file"
             THEN IF ext = RAR_EXT
                  THEN IF rar.err # "" THEN [err |-> rar.err, m |-> acc.m]
                       ELSE IF ~rar.value THEN Walk(p, kids, k + 1, acc)
                       ELSE Walk(p, kids, k + 1, [acc EXCEPT !.m = Append(@, item)])
                  ELSE IF ext \notin MEDIA_EXTS THEN Walk(p, kids, k + 1, acc)
                  ELSE Walk(p, kids, k + 1, [acc EXCEPT !.m = Append(@, item)])
             ELSE Walk(p, kids, k + 1, acc)

\* get_media(p) with m=None; root is what lies at p ("missing" when nothing).
get_media(p, root) ==
    IF root.kind # "dir" THEN [err |-> "", m |-> <<>>]
    ELSE Walk(p, root.kids, 1, [err |-> "", m |-> <<>>])

-----------------------------------------------------------------------------
(* The resolver and the executor: get_target_path, extract_rar, organize.  *)

MODES == {"copy", "link", "move"}

\* get_season_target(t, s): t / f'season {s:02}'.
get_season_target(t, s) ==
    PathJoin(t, <<"s", "e", "a", "s", "o", "n", " ">> \o Pad2(s))

\* f's{season:02}e{episode:02}{ext}'
TargetName(season, episode, ext) ==
    <<"s">> \o Pad2(season) \o <<"e">> \o Pad2(episode) \o ext

get_target_path(source, tgt) ==
    LET Ret(info, tseason) ==
            IF info.err # "" THEN [err |-> "ValueError", path |-> <<>>]
            ELSE IF tseason.err # ""
            THEN [err |-> "",
                  path |-> PathJoin(get_season_target(tgt, info.season),
                                    TargetName(info.season, info.episode, PathExt(source)))]
            \* the bare assert: an AssertionError whose args are ()
            ELSE IF tseason.season # info.season
            THEN [err |-> "AssertionError", path |-> <<>>]
            ELSE [err |-> "",
                  path |-> PathJoin(tgt, TargetName(info.season, info.episode,
                                                    PathExt(source)))]
    IN  Ret(get_episode_info(source), get_season_number(tgt))

\* What organize hands back: True, None, or the exception it raised; hasArgs
\* tells whether the exception's args hold a message.
R_True == [kind |-> "True", exc |-> "", hasArgs |-> FALSE]

R_None == [kind |-> "None", exc |-> "", hasArgs |-> FALSE]

R_Exc(name) == [kind |-> "Exception", exc |-> name, hasArgs |-> name # "AssertionError"]

NoExtract == [entry |-> <<>>, path |-> <<>>]

\* The position of the first entry with a media extension, 0 if none.
FirstMedia(entries) ==
    LET ms == {k \in 1..Len(entries) : SplitExt(entries[k]) \in MEDIA_EXTS}
    IN  IF ms = {} THEN 0 ELSE CHOOSE k \in ms : \A l \in ms : k <= l

\* rf.extract(rf.infolist()[0], path=extract_path): the entry extracted and
\* the file written; path names the directory the entry is unpacked into.
ExtractCall(entries, extract_path) ==
    [entry |-> entries[1], path |-> PathJoin(extract_path, entries[1])]

\* extract_rar(j): value is what it returns, job is j afterwards, log is
\* what was written to disk.
extract_rar(j, entries) ==
    LET Rewrite(extract_path, log, t) ==
            IF t.err # ""
            THEN [err |-> t.err, value |-> FALSE, job |-> [j EXCEPT !.s = extract_path],
                  log |-> log]
            ELSE [err |-> "", value |-> TRUE,
                  job |-> [j EXCEPT !.s = extract_path, !.t = t.path], log |-> log]
        Extract(extract_path) ==
            Rewrite(extract_path, ExtractCall(entries, extract_path),
                    get_target_path(extract_path, PathHead(j.t)))
        Scan(k) ==
            IF k = 0 THEN [err |-> "", value |-> FALSE, job |-> j, log |-> NoExtract]
            ELSE Extract(PathJoin(PathHead(j.s), entries[k]))
    IN  Scan(FirstMedia(entries))

\* makedirs(d) and then copy, link or move: the exception raised, "" if none.
\* After extract_rar the source is the directory the entry was unpacked into.
PlaceError(j, sourceIsDir, unwr, exists) ==
    IF PathHead(j.t) \in unwr THEN "OSError"
    ELSE IF j.a = "copy" /\ sourceIsDir THEN "OSError"
    ELSE IF j.a = "link" /\ (sourceIsDir \/ j.t \in exists) THEN "OSError"
    ELSE ""

\* organize(j): result is what the caller sees, job is j afterwards.
organize(j, entries, unwr, exists) ==
    LET Place(x, perr) ==
            IF perr # ""
            THEN [result |-> R_Exc(perr), job |-> x.job, log |-> x.log, exists |-> exists]
            ELSE [result |-> R_True, job |-> x.job, log |-> x.log,
                  exists |-> exists \cup {x.job.t}]
        After(x) ==
            IF x.err # ""
            THEN [result |-> R_Exc(x.err), job |-> x.job, log |-> x.log, exists |-> exists]
            ELSE IF ~x.value
            THEN [result |-> R_None, job |-> x.job, log |-> x.log, exists |-> exists]
            ELSE Place(x, PlaceError(x.job, x.log # NoExtract, unwr, exists))
    IN  After(IF PathExt(j.t) = RAR_EXT THEN extract_rar(j, entries)
              ELSE [err |-> "", value |-> TRUE, job |-> j, log |-> NoExtract])

-----------------------------------------------------------------------------
(* File names of the examples.                                             *)

N_a_mkv   == <<"a", ".", "m", "k", "v">>
N_b_avi   == <<"b", ".", "a", "v", "i">>
N_c_txt   == <<"c", ".", "t", "x", "t">>
N_p_mkv   == <<"p", ".", "m", "k", "v">>
N_x_mkv   == <<"x", ".", "m", "k", "v">>
N_x_nfo   == <<"x", ".", "n", "f", "o">>
N_n0_txt  == <<"n", "0", ".", "t", "x", "t">>
N_a_rar   == <<"a", ".", "r", "a", "r">>
N_b_rar   == <<"b", ".", "r", "a", "r">>
N_a1_rar  == <<"a", "1", ".", "r", "a", "r">>
N_a2_rar  == <<"a", "2", ".", "r", "a", "r">>
N_b1_rar  == <<"b", "1", ".", "r", "a", "r">>
N_season01 == <<"s", "e", "a", "s", "o", "n", " ", "0", "1">>
N_S2      == <<"S", "2">>
N_extras  == <<"e", "x", "t", "r", "a", "s">>
N_root    == <<"r", "o", "o", "t">>
N_src     == <<"s", "r", "c">>
N_media   == <<"m", "e", "d", "i", "a">>
N_show    == <<"s", "h", "o", "w">>
N_episode_mkv == <<"e", "p", "i", "s", "o", "d", "e", ".", "m", "k", "v">>
N_a_S01E02_mkv == <<"a", ".", "S", "0", "1", "E", "0", "2", ".", "m", "k", "v">>
N_z_1x02_mkv == <<"z", ".", "1", "x", "0", "2", ".", "m", "k", "v">>
N_Show_S02E03_rar ==
    <<"S", "h", "o", "w", ".", "S", "0", "2", "E", "0", "3", ".", "r", "a", "r">>
N_c_S02E04_rar == <<"c", ".", "S", "0", "2", "E", "0", "4", ".", "r", "a", "r">>
N_c_S01E04_mkv == <<"c", ".", "S", "0", "1", "E", "0", "4", ".", "m", "k", "v">>
N_d_S01E05_rar == <<"d", ".", "S", "0", "1", "E", "0", "5", ".", "r", "a", "r">>
N_d_S01E05_mkv == <<"d", ".", "S", "0", "1", "E", "0", "5", ".", "m", "k", "v">>
N_e_S01E06_rar == <<"e", ".", "S", "0", "1", "E", "0", "6", ".", "r", "a", "r">>

-----------------------------------------------------------------------------
(* SpecParse: get_episode_info applied to every short name.                *)

MaxNameLen == 5

ParseAlphabet == {"s", "S", "e", "E", "x", "X", "0", "1", "a"}

NamesUpTo(n) == UNION {[1..k -> ParseAlphabet] : k \in 0..n}

NotCalled == [err |-> "NotCalled", season |-> 0, episode |-> 0]

parseVars == <<parseName, parseResult>>

rarVars == <<rarListing, rarArg, rarResult>>

discVars == <<treeRoot, discResult>>

ParseIdle == parseName = <<>> /\ parseResult = NotCalled

RarIdle ==
    /\ rarListing = <<>>
    /\ rarArg = <<>>
    /\ rarResult = [err |-> "NotCalled", value |-> FALSE]

DiscIdle ==
    /\ treeRoot = [name |-> <<>>, kind |-> "missing", kids |-> <<>>, entries |-> <<>>]
    /\ discResult = [err |-> "NotCalled", m |-> <<>>]

runVars ==
    <<mode, serial, target, unwritable, source_media, jobs, mainpc, si, job_q,
      unfinished, finished, wpc, wjob, wres, done, dir_counts, failed, placed,
      takenBy, execCount, outcome, putCount, extractLog>>

\* The main thread has not been entered.
RunIdle ==
    /\ mode = "move"
    /\ serial = FALSE
    /\ target = <<>>
    /\ unwritable = {}
    /\ source_media = <<>>
    /\ jobs = <<>>
    /\ mainpc = "idle"
    /\ si = 1
    /\ job_q = <<>>
    /\ unfinished = 0
    /\ finished = <<>>
    /\ wpc = <<>>
    /\ wjob = <<>>
    /\ wres = <<>>
    /\ done = 0
    /\ dir_counts = <<>>
    /\ failed = <<>>
    /\ placed = {}
    /\ takenBy = <<>>
    /\ execCount = <<>>
    /\ outcome = <<>>
    /\ putCount = <<>>
    /\ extractLog = <<>>

InitParse ==
    /\ parseName \in NamesUpTo(MaxNameLen)
    /\ parseResult = NotCalled
    /\ RarIdle
    /\ DiscIdle
    /\ RunIdle

ParseStep ==
    /\ parseResult = NotCalled
    /\ parseResult' = get_episode_info(<<parseName>>)
    /\ UNCHANGED <<parseName, rarVars, discVars, runVars>>

vars == <<parseVars, rarVars, discVars, runVars>>

SpecParse == InitParse /\ [][ParseStep]_vars

-----------------------------------------------------------------------------
(* SpecRar: is_rar_first_volume applied to an archive path and every       *)
(* short listing of its directory.                                         *)

MaxListing == 3

RarNamePool ==
    {N_a_rar, N_b_rar, N_a1_rar, N_a2_rar, N_b1_rar, N_n0_txt, N_a_mkv}

\* The sequences of at most n pairwise different elements of S.
DistinctSeqs(S, n) ==
    UNION {{q \in [1..k -> S] : \A i, j \in 1..k : i # j => q[i] # q[j]} : k \in 0..n}

InitRar ==
    /\ rarListing \in DistinctSeqs(RarNamePool, MaxListing)
    /\ rarArg \in {PathJoin(<<N_root>>, n) : n \in {x \in RarNamePool : SplitExt(x) = RAR_EXT}}
    /\ rarResult = [err |-> "NotCalled", value |-> FALSE]
    /\ ParseIdle
    /\ DiscIdle
    /\ RunIdle

RarStep ==
    /\ rarResult.err = "NotCalled"
    /\ rarResult' = is_rar_first_volume(rarArg, rarListing)
    /\ UNCHANGED <<rarListing, rarArg, parseVars, discVars, runVars>>

SpecRar == InitRar /\ [][RarStep]_vars

-----------------------------------------------------------------------------
(* SpecDiscover: get_media applied to small directory trees.               *)

MaxEntries == 3

EntryPool ==
    { File(N_a_mkv), File(N_b_avi), File(N_c_txt), Other(N_p_mkv),
      Rar(N_a_rar, <<N_x_nfo, N_x_mkv>>), Rar(N_b_rar, <<N_x_nfo>>),
      Rar(N_a1_rar, <<N_x_mkv>>), Rar(N_a2_rar, <<N_x_mkv>>),
      Dir(N_season01, << File(N_a_mkv),
                         Dir(N_S2, <<File(N_b_avi), Rar(N_a1_rar, <<N_x_mkv>>)>>),
                         Dir(N_extras, <<File(N_a_mkv)>>) >>),
      Dir(N_extras, << File(N_a_mkv), Dir(N_season01, <<File(N_b_avi)>>) >>),
      Dir(N_S2, << Rar(N_a_rar, <<N_x_mkv>>), Rar(N_b_rar, <<N_x_mkv>>) >>) }

\* Names are unique within one directory.
DistinctNames(kids) == \A i, j \in 1..Len(kids) : i # j => kids[i].name # kids[j].name

InitDiscover ==
    /\ \E kids \in DistinctSeqs(EntryPool, MaxEntries), kind \in {"dir", "file", "missing"} :
          /\ DistinctNames(kids)
          /\ kind # "dir" => kids = <<>>
          /\ treeRoot = [name |-> N_root, kind |-> kind, kids |-> kids, entries |-> <<>>]
    /\ discResult = [err |-> "NotCalled", m |-> <<>>]
    /\ ParseIdle
    /\ RarIdle
    /\ RunIdle

DiscoverStep ==
    /\ discResult.err = "NotCalled"
    /\ discResult' = get_media(<<N_root>>, treeRoot)
    /\ UNCHANGED <<treeRoot, parseVars, rarVars, runVars>>

SpecDiscover == InitDiscover /\ [][DiscoverStep]_vars

-----------------------------------------------------------------------------
(* Spec: main from the end of the collection loop, in serial and in        *)
(* parallel mode, with the organize_worker threads.                        *)

MaxJobs == 2

WORKER_CAP == 64

\* The media items a collection may have found: path and, for an archive,
\* its table of contents when the job runs.  The last archive's media entry
\* was taken out of it after the collection looked at it.
SourcePool ==
    << [path |-> <<N_src, N_a_S01E02_mkv>>,    entries |-> <<>>],
       [path |-> <<N_src, N_z_1x02_mkv>>,      entries |-> <<>>],
       [path |-> <<N_src, N_Show_S02E03_rar>>, entries |-> <<N_episode_mkv>>],
       [path |-> <<N_src, N_c_S02E04_rar>>,    entries |-> <<N_c_S01E04_mkv>>],
       [path |-> <<N_src, N_d_S01E05_rar>>,    entries |-> <<N_x_nfo, N_d_S01E05_mkv>>],
       [path |-> <<N_src, N_e_S01E06_rar>>,    entries |-> <<N_x_nfo>>] >>

\* RarFile(p).infolist() of the archive at p, also once extract_rar has
\* rewritten the job's source to a path beside it (then nothing reads it).
EntriesOf(p) ==
    LET ks == {k \in 1..Len(SourcePool) : SourcePool[k].path = p}
    IN  IF ks = {} THEN <<>> ELSE SourcePool[CHOOSE k \in ks : TRUE].entries

\* The elements of the set of positions I, in the pool's order.
RECURSIVE PoolPaths(_)
PoolPaths(I) ==
    IF I = {} THEN <<>>
    ELSE LET k == CHOOSE x \in I : \A y \in I : x <= y
         IN  <<SourcePool[k].path>> \o PoolPaths(I \ {k})

Targets == {<<N_media, N_show>>, <<N_media, N_season01>>}

\* Nothing is unwritable, or the directory season 1 goes to is.
UnwritableChoices(tgt) ==
    {{}, {IF get_season_number(tgt).err = "" THEN tgt ELSE get_season_target(tgt, 1)}}

Min(a, b) == IF a <= b THEN a ELSE b

Init ==
    /\ mode \in MODES
    /\ serial \in BOOLEAN
    /\ target \in Targets
    /\ unwritable \in UnwritableChoices(target)
    /\ \E I \in SUBSET (1..Len(SourcePool)) :
          /\ Cardinality(I) <= MaxJobs
          /\ source_media = PoolPaths(I)
    /\ jobs = <<>>
    /\ mainpc = "build"
    /\ si = 1
    /\ job_q = <<>>
    /\ unfinished = 0
    /\ finished = <<>>
    /\ wpc = <<>>
    /\ wjob = <<>>
    /\ wres = <<>>
    /\ done = 0
    /\ dir_counts = <<>>
    /\ failed = <<>>
    /\ placed = {}
    /\ takenBy = <<>>
    /\ execCount = <<>>
    /\ outcome = <<>>
    /\ putCount = <<>>
    /\ extractLog = <<>>
    /\ ParseIdle
    /\ RarIdle
    /\ DiscIdle

pureVars == <<parseVars, rarVars, discVars>>

config == <<mode, serial, target, unwritable, source_media>>

\* The loop that builds jobs from source_media[k..]: a ValueError skips the
\* item, any other exception of get_target_path leaves the loop.
RECURSIVE BuildJobs(_, _, _, _, _)
BuildJobs(media, tgt, a, k, acc) ==
    IF k > Len(media) THEN [err |-> "", jobs |-> acc]
    ELSE LET Item(t) ==
                 IF t.err = "ValueError" THEN BuildJobs(media, tgt, a, k + 1, acc)
                 ELSE IF t.err # "" THEN [err |-> t.err, jobs |-> acc]
                 ELSE BuildJobs(media, tgt, a, k + 1,
                                Append(acc, [a |-> a, s |-> media[k], t |-> t.path]))
         IN  Item(get_target_path(media[k], tgt))

\* The branch that picks the serial loop.
RunsSerially == serial = TRUE \/ mode = "COPY"

\* main, lines 356-398: no media exits; otherwise the job list is built and
\* the mode is picked.  An exception that leaves the loop ends the program.
MainBuild ==
    /\ mainpc = "build"
    /\ \E b \in {BuildJobs(source_media, target, mode, 1, <<>>)} :
           IF source_media = <<>>
           THEN mainpc' = "exit1"
                /\ UNCHANGED <<jobs, takenBy, execCount, outcome, putCount, extractLog>>
           ELSE IF b.err # ""
           THEN mainpc' = "crashed"
                /\ UNCHANGED <<jobs, takenBy, execCount, outcome, putCount, extractLog>>
           ELSE /\ jobs' = b.jobs
                /\ takenBy' = [i \in 1..Len(b.jobs) |-> {}]
                /\ execCount' = [i \in 1..Len(b.jobs) |-> 0]
                /\ outcome' = [i \in 1..Len(b.jobs) |-> "none"]
                /\ putCount' = [i \in 1..Len(b.jobs) |-> 0]
                /\ extractLog' = [i \in 1..Len(b.jobs) |-> NoExtract]
                /\ mainpc' = IF RunsSerially THEN "serial" ELSE "start"
    /\ UNCHANGED <<config, si, job_q, unfinished, finished, wpc, wjob, wres, done,
                   dir_counts, failed, placed, pureVars>>

\* One turn of the serial loop: organize(j), whose exception nothing catches.
SerialStep ==
    /\ mainpc = "serial"
    /\ si <= Len(jobs)
    /\ \E r \in {organize(jobs[si], EntriesOf(jobs[si].s), unwritable, placed)} :
           /\ jobs' = [jobs EXCEPT ![si] = r.job]
           /\ placed' = r.exists
           /\ execCount' = [execCount EXCEPT ![si] = @ + 1]
           /\ outcome' = [outcome EXCEPT ![si] = r.result.kind]
           /\ extractLog' = [extractLog EXCEPT ![si] = r.log]
           /\ IF r.result.kind = "Exception"
              THEN mainpc' = "crashed" /\ si' = si
              ELSE mainpc' = mainpc /\ si' = si + 1
    /\ UNCHANGED <<config, job_q, unfinished, finished, wpc, wjob, wres, done,
                   dir_counts, failed, takenBy, putCount, pureVars>>

SerialEnd ==
    /\ mainpc = "serial"
    /\ si > Len(jobs)
    /\ mainpc' = "done"
    /\ UNCHANGED <<config, jobs, si, job_q, unfinished, finished, wpc, wjob, wres,
                   done, dir_counts, failed, placed, takenBy, execCount, outcome, putCount,
                   extractLog, pureVars>>

\* main, lines 400-407: every job is queued, then the workers are started.
MainStart ==
    /\ mainpc = "start"
    /\ job_q' = [i \in 1..Len(jobs) |-> i]
    /\ unfinished' = Len(jobs)
    /\ wpc' = [w \in 1..Min(WORKER_CAP, Len(jobs)) |-> "get"]
    /\ wjob' = [w \in 1..Min(WORKER_CAP, Len(jobs)) |-> 0]
    /\ wres' = [w \in 1..Min(WORKER_CAP, Len(jobs)) |-> R_None]
    /\ mainpc' = "drain"
    /\ UNCHANGED <<config, jobs, si, finished, done, dir_counts, failed, placed,
                   takenBy, execCount, outcome, putCount, extractLog, pureVars>>

\* A get that hands out the head of the queue and leaves it queued.
QueueGet_Keeps(q) == [item |-> Head(q), rest |-> q]

\* q.get_nowait() on a queue that holds something: the item and the rest.
QueueGet(q) == [item |-> Head(q), rest |-> Tail(q)]

WorkerGet(w) ==
    /\ wpc[w] = "get"
    /\ job_q # <<>>
    /\ \E got \in {QueueGet(job_q)} :
           /\ job_q' = got.rest
           /\ wjob' = [wjob EXCEPT ![w] = got.item]
           /\ takenBy' = [takenBy EXCEPT ![got.item] = @ \cup {w}]
    /\ wpc' = [wpc EXCEPT ![w] = "run"]
    /\ UNCHANGED <<config, jobs, mainpc, si, unfinished, finished, wres, done,
                   dir_counts, failed, placed, execCount, outcome, putCount, extractLog,
                   pureVars>>

\* queue.Empty: the worker leaves its loop.
WorkerEmpty(w) ==
    /\ wpc[w] = "get"
    /\ job_q = <<>>
    /\ wpc' = [wpc EXCEPT ![w] = "exit"]
    /\ UNCHANGED <<config, jobs, mainpc, si, job_q, unfinished, finished, wjob,
                   wres, done, dir_counts, failed, placed, takenBy, execCount,
                   outcome, putCount, extractLog, pureVars>>

\* organize(job) inside the try: the result is True, None or the exception.
WorkerOrganize(w) ==
    /\ wpc[w] = "run"
    /\ \E i \in {wjob[w]} :
       \E r \in {organize(jobs[i], EntriesOf(jobs[i].s), unwritable, placed)} :
           /\ jobs' = [jobs EXCEPT ![i] = r.job]
           /\ placed' = r.exists
           /\ wres' = [wres EXCEPT ![w] = r.result]
           /\ execCount' = [execCount EXCEPT ![i] = @ + 1]
           /\ outcome' = [outcome EXCEPT ![i] = r.result.kind]
           /\ extractLog' = [extractLog EXCEPT ![i] = r.log]
    /\ wpc' = [wpc EXCEPT ![w] = "put"]
    /\ UNCHANGED <<config, mainpc, si, job_q, unfinished, finished, wjob, done,
                   dir_counts, failed, takenBy, putCount, pureVars>>

WorkerPut(w) ==
    /\ wpc[w] = "put"
    /\ finished' = Append(finished, [job |-> wjob[w], result |-> wres[w]])
    /\ putCount' = [putCount EXCEPT ![wjob[w]] = @ + 1]
    /\ wpc' = [wpc EXCEPT ![w] = "done"]
    /\ UNCHANGED <<config, jobs, mainpc, si, job_q, unfinished, wjob, wres, done,
                   dir_counts, failed, placed, takenBy, execCount, outcome,
                   extractLog, pureVars>>

WorkerTaskDone(w) ==
    /\ wpc[w] = "done"
    /\ unfinished' = unfinished - 1
    /\ wjob' = [wjob EXCEPT ![w] = 0]
    /\ wpc' = [wpc EXCEPT ![w] = "get"]
    /\ UNCHANGED <<config, jobs, mainpc, si, job_q, finished, wres, done,
                   dir_counts, failed, placed, takenBy, execCount, outcome, putCount,
                   extractLog, pureVars>>

\* dir_counts[d] += 1 on a defaultdict(int).
Increment(counts, d) ==
    IF d \in DOMAIN counts THEN [counts EXCEPT ![d] = @ + 1] ELSE counts @@ (d :> 1)

\* A drain loop that tests `result is not False` where the code tests
\* `result is True`: a dropped job's None counts as an item added.
Aggregate_CountsDropped(counts, fails, i, j, result) ==
    IF result.kind = "Exception"
    THEN IF result.hasArgs
         THEN [dir_counts |-> counts,
               failed |-> Append(fails, [job |-> i, error |-> result.exc]),
               raised |-> FALSE]
         ELSE [dir_counts |-> counts, failed |-> fails, raised |-> TRUE]
    ELSE [dir_counts |-> Increment(counts, PathHead(j.t)), failed |-> fails,
          raised |-> FALSE]

\* The body of the drain loop for one (job, result): the new dir_counts and
\* failed, and whether result.args[0] raised.
Aggregate(counts, fails, i, j, result) ==
    IF result.kind = "True"
    THEN [dir_counts |-> Increment(counts, PathHead(j.t)), failed |-> fails,
          raised |-> FALSE]
    ELSE IF result.kind = "Exception"
    THEN IF result.hasArgs
         THEN [dir_counts |-> counts,
               failed |-> Append(fails, [job |-> i, error |-> result.exc]),
               raised |-> FALSE]
         ELSE [dir_counts |-> counts, failed |-> fails, raised |-> TRUE]
    ELSE [dir_counts |-> counts, failed |-> fails, raised |-> FALSE]

\* One turn of `while done < len(jobs)`: finished.get() and the bookkeeping.
MainDrain ==
    /\ mainpc = "drain"
    /\ done < Len(jobs)
    /\ finished # <<>>
    /\ \E item \in {Head(finished)} :
       \E agg \in {Aggregate(dir_counts, failed, item.job, jobs[item.job], item.result)} :
           /\ finished' = Tail(finished)
           /\ dir_counts' = agg.dir_counts
           /\ failed' = agg.failed
           /\ IF agg.raised
              THEN mainpc' = "crashed" /\ done' = done
              ELSE mainpc' = mainpc /\ done' = done + 1
    /\ UNCHANGED <<config, jobs, si, job_q, unfinished, wpc, wjob, wres, placed,
                   takenBy, execCount, outcome, putCount, extractLog, pureVars>>

\* The loop condition fails: on to job_q.join().
MainDrained ==
    /\ mainpc = "drain"
    /\ done >= Len(jobs)
    /\ mainpc' = "join"
    /\ UNCHANGED <<config, jobs, si, job_q, unfinished, finished, wpc, wjob, wres,
                   done, dir_counts, failed, placed, takenBy, execCount, outcome, putCount,
                   extractLog, pureVars>>

\* job_q.join() returns once every queued item has been marked task_done.
MainJoin ==
    /\ mainpc = "join"
    /\ unfinished = 0
    /\ mainpc' = "report"
    /\ UNCHANGED <<config, jobs, si, job_q, unfinished, finished, wpc, wjob, wres,
                   done, dir_counts, failed, placed, takenBy, execCount, outcome, putCount,
                   extractLog, pureVars>>

\* The table and failed.json are written from dir_counts and failed.
MainReport ==
    /\ mainpc = "report"
    /\ mainpc' = "done"
    /\ UNCHANGED <<config, jobs, si, job_q, unfinished, finished, wpc, wjob, wres,
                   done, dir_counts, failed, placed, takenBy, execCount, outcome, putCount,
                   extractLog, pureVars>>

Next ==
    \/ MainBuild
    \/ SerialStep
    \/ SerialEnd
    \/ MainStart
    \/ \E w \in DOMAIN wpc : WorkerGet(w)
    \/ \E w \in DOMAIN wpc : WorkerEmpty(w)
    \/ \E w \in DOMAIN wpc : WorkerOrganize(w)
    \/ \E w \in DOMAIN wpc : WorkerPut(w)
    \/ \E w \in DOMAIN wpc : WorkerTaskDone(w)
    \/ MainDrain
    \/ MainDrained
    \/ MainJoin
    \/ MainReport

Spec == Init /\ [][Next]_vars

\* Threads that can run do run.
FairSpec == Spec /\ WF_vars(Next)

-----------------------------------------------------------------------------
(* Claims about the pure functions.                                        *)

\* The base name holds S<digits>E<digits>, in either case.
ContainsSxEy(name) ==
    \E i \in 1..Len(name), k \in 1..Len(name) :
        /\ i + k + 2 <= Len(name)
        /\ name[i] \in {"s", "S"}
        /\ \A j \in (i + 1)..(i + k) : IsDigit(name[j])
        /\ name[i + k + 1] \in {"e", "E"}
        /\ IsDigit(name[i + k + 2])

\* The base name holds <digits>x<digits>, in either case.
ContainsNxN(name) ==
    \E i \in 1..Len(name) :
        /\ i + 2 <= Len(name)
        /\ IsDigit(name[i])
        /\ name[i + 1] \in {"x", "X"}
        /\ IsDigit(name[i + 2])

\* The two integers captured by the first pattern of the list that matches.
Captured(name) ==
    LET m == IF ContainsSxEy(name) THEN ReSearch("SxEy", name) ELSE ReSearch("NxN", name)
    IN  [err |-> "", season |-> m.g1, episode |-> m.g2]

\* C5: for every filename whose base name contains S<digits>E<digits> or
\* <digits>x<digits>, get_episode_info returns exactly the two captured
\* integers of the first pattern that matches; for every other filename it
\* fails with the episode-parse error.
C5_ParseEpisode ==
    parseResult # NotCalled =>
        IF ContainsSxEy(parseName) \/ ContainsNxN(parseName)
        THEN parseResult = Captured(parseName)
        ELSE parseResult.err = "ValueError"

\* What the specification says isFirstVolume returns for the archive called
\* name in a directory listed as listing.
ClaimedFirstVolume(name, listing) ==
    LET rars == {k \in 1..Len(listing) : SplitExt(listing[k]) = RAR_EXT}
    IN  IF Cardinality(rars) = 0 THEN FALSE
        ELSE IF Cardinality(rars) = 1 THEN TRUE
        ELSE /\ HasPart(name)
             /\ \A k \in 1..Len(listing) :
                    HasPart(listing[k]) => PartNumber(name) <= PartNumber(listing[k])

RarArgListed == \E k \in 1..Len(rarListing) : rarListing[k] = PathTail(rarArg)

NoRarListed == \A k \in 1..Len(rarListing) : SplitExt(rarListing[k]) # RAR_EXT

\* C6: is_rar_first_volume returns true when the archive is the only file
\* with the archive extension; with more than one such file, true iff the
\* archive has the least trailing number among the siblings that have one;
\* and false, without raising, when no file has the archive extension.
C6_FirstVolume ==
    (rarResult.err # "NotCalled" /\ (RarArgListed \/ NoRarListed)) =>
        rarResult = [err |-> "", value |-> ClaimedFirstVolume(PathTail(rarArg), rarListing)]

\* The files the specification says discover returns from directory p.
RECURSIVE ClaimedMedia(_, _)
ClaimedMedia(p, kids) ==
    UNION { LET node == kids[k]
                item == PathJoin(p, node.name)
            IN  IF node.kind = "dir"
                THEN IF get_season_number(item).err = ""
                     THEN ClaimedMedia(item, node.kids) ELSE {}
                ELSE IF node.kind # "file" THEN {}
                ELSE IF SplitExt(node.name) \in MEDIA_EXTS THEN {item}
                ELSE IF /\ SplitExt(node.name) = RAR_EXT
                        /\ ClaimedFirstVolume(node.name, Listing(kids))
                        /\ \E e \in 1..Len(node.entries) :
                               SplitExt(node.entries[e]) \in MEDIA_EXTS
                     THEN {item}
                ELSE {}
          : k \in 1..Len(kids) }

\* C7: get_media returns exactly the regular files that have a media
\* extension or are qualifying archives and lie in root or below a chain of
\* season directories, and nothing when root is not a directory.
C7_Discover ==
    discResult.err # "NotCalled" =>
        LET want == IF treeRoot.kind = "dir"
                    THEN ClaimedMedia(<<N_root>>, treeRoot.kids) ELSE {}
        IN  /\ discResult.err = ""
            /\ {discResult.m[k] : k \in 1..Len(discResult.m)} = want
            /\ Len(discResult.m) = Cardinality(want)

-----------------------------------------------------------------------------
(* Claims about a run.                                                     *)

JobIds == 1..Len(jobs)

WorkersExited == \A w \in DOMAIN wpc : wpc[w] = "exit"

\* No thread of the program is left running.
ProgramEnded == mainpc \in {"done", "crashed", "exit1"} /\ WorkersExited

\* The exception of job i left organize's caller uncaught.
Propagated(i) == RunsSerially /\ mainpc = "crashed" /\ si = i

\* C1: in serial and in parallel mode a failure raised while one job runs is
\* captured and attributed to that job, and every other job of the list is
\* still executed.
C1_FailureIsolation ==
    ProgramEnded => \A i \in JobIds : execCount[i] = 1 /\ ~Propagated(i)

\* The workers were started (a crash of main before that is no parallel run).
ParallelRun ==
    /\ ~RunsSerially
    /\ \/ mainpc \in {"drain", "join", "report", "done"}
       \/ mainpc = "crashed" /\ wpc # <<>>

\* C2: in a parallel run each job is taken from the job queue by exactly one
\* worker, executed exactly once, and gives exactly one outcome on the
\* results queue: never more than one, and one when the workers are through.
C2_ExactlyOnce ==
    ParallelRun =>
        /\ \A i \in JobIds :
              /\ Cardinality(takenBy[i]) <= 1
              /\ execCount[i] <= 1
              /\ putCount[i] <= 1
        /\ WorkersExited =>
              \A i \in JobIds :
                  /\ Cardinality(takenBy[i]) = 1
                  /\ execCount[i] = 1
                  /\ putCount[i] = 1
        /\ Cardinality(DOMAIN wpc) = Min(WORKER_CAP, Len(jobs))

\* Two workers each took a job, and every worker has left its loop.
C2_Witness ==
    /\ ParallelRun
    /\ WorkersExited
    /\ \E i, j \in JobIds : takenBy[i] # {} /\ takenBy[j] # {} /\ takenBy[i] # takenBy[j]

\* The job list as main built it, before any job was rewritten.
BuiltJobs == BuildJobs(source_media, target, mode, 1, <<>>).jobs

\* Job i was built for an archive.
ArchiveJob(i) == PathExt(BuiltJobs[i].t) = RAR_EXT

\* C3: the job built for an archive whose name encodes season S and episode
\* E and whose media entry encodes no episode, with a target root that is no
\* season directory, ends in success: the entry is extracted beside the
\* archive and placed at T/season SS/sSSeEE with the entry's extension.
C3_ArchiveEndToEnd ==
    \A i \in JobIds :
        LET src     == BuiltJobs[i].s
            entries == EntriesOf(src)
            m       == entries[FirstMedia(entries)]
            info    == get_episode_info(src)
        IN  ( /\ execCount[i] = 1
              /\ ArchiveJob(i)
              /\ FirstMedia(entries) > 0
              /\ get_episode_info(<<m>>).err # ""
              /\ get_season_number(target).err # ""
              /\ get_season_target(target, info.season) \notin unwritable )
            => /\ outcome[i] = "True"
               /\ extractLog[i].path = PathJoin(PathHead(src), m)
               /\ jobs[i].t = PathJoin(get_season_target(target, info.season),
                                       TargetName(info.season, info.episode, SplitExt(m)))
               /\ jobs[i].t \in placed

Drained == ~RunsSerially /\ mainpc \in {"join", "report", "done"}

CountOf(d) == IF d \in DOMAIN dir_counts THEN dir_counts[d] ELSE 0

FailureRecords(i) == {k \in 1..Len(failed) : failed[k].job = i}

\* C4: once a parallel run has drained all outcomes, the count of every
\* directory is the number of jobs that succeeded into it, failed holds one
\* record for each job that raised and none for any other, and a job
\* dropped for want of a media entry adds to neither, whatever the order in
\* which the outcomes arrived.
C4_Aggregation ==
    Drained =>
        /\ \A d \in DOMAIN dir_counts \cup {PathHead(jobs[i].t) : i \in JobIds} :
              CountOf(d) =
                  Cardinality({i \in JobIds : outcome[i] = "True" /\ PathHead(jobs[i].t) = d})
        /\ \A i \in JobIds :
              Cardinality(FailureRecords(i)) = IF outcome[i] = "Exception" THEN 1 ELSE 0
        /\ \A k \in 1..Len(failed) : failed[k].job \in JobIds
        /\ done = Len(jobs)

\* A drained run with a job that succeeded and a job that raised.
C4_Witness ==
    /\ Drained
    /\ \E i, j \in JobIds :
          /\ outcome[j] = "True"
          /\ outcome[i] = "Exception"
          /\ CountOf(PathHead(jobs[j].t)) = 1
          /\ FailureRecords(i) # {}

\* Some thread has a step to take: main is not blocked in finished.get() or
\* job_q.join() and has not ended, or a worker has not left its loop.
SomeThreadCanRun ==
    \/ mainpc \in {"build", "serial", "start", "report"}
    \/ mainpc = "drain" /\ (done >= Len(jobs) \/ finished # <<>>)
    \/ mainpc = "join" /\ unfinished = 0
    \/ \E w \in DOMAIN wpc : wpc[w] # "exit"

\* C8: in a parallel run, with threads scheduled fairly, main drains as many
\* outcomes as jobs were submitted, passes the barrier and reaches the
\* report, every worker terminates, and the report never starts while a
\* submitted job is not yet taken and fully processed.  Every step uses up
\* a job stage or a program position, so a fair run goes on until no thread
\* can run: the claim is that it ends only past the report, all workers
\* gone.
C8_ParallelCompletes ==
    ParallelRun =>
        /\ SomeThreadCanRun \/ (mainpc = "done" /\ done = Len(jobs) /\ WorkersExited)
        /\ mainpc \in {"report", "done"} =>
              /\ done = Len(jobs)
              /\ job_q = <<>>
              /\ unfinished = 0
              /\ \A i \in JobIds : execCount[i] = 1

\* C9: no two jobs built from pairwise distinct source paths and one target
\* root have the same target path, so no two workers act on the same target.
C9_DisjointTargets ==
    \A i, j \in JobIds : i # j => jobs[i].t # jobs[j].t

\* C10: with a media entry in the archive, extract_rar extracts the first
\* media entry of the table of contents, writes it to the archive's
\* directory joined with the entry's name, and rewrites job.source to that
\* path; without one it returns false and leaves the job as it was.
C10_Materialize ==
    \A i \in JobIds :
        LET src     == BuiltJobs[i].s
            entries == EntriesOf(src)
            k       == FirstMedia(entries)
        IN  (execCount[i] = 1 /\ ArchiveJob(i)) =>
                IF k > 0
                THEN /\ extractLog[i].entry = entries[k]
                     /\ extractLog[i].path = PathJoin(PathHead(src), entries[k])
                     /\ jobs[i].s = extractLog[i].path
                ELSE /\ outcome[i] = "None"
                     /\ extractLog[i] = NoExtract
                     /\ jobs[i] = BuiltJobs[i]

=============================================================================
